---------------------------- MODULE Spec2Model ----------------------------
(***************************************************************************)
(* Model of minisweagent/agents/interactive.py: the InteractiveAgent that  *)
(* wraps the base agent loop with three modes (human, confirm, yolo), a    *)
(* reentrant prompt with meta-commands, and a snapshot ledger with         *)
(* rollback.                                                               *)
(*                                                                         *)
(* Text is modelled as a sequence of symbols.  User input lines, commands  *)
(* and whitelist patterns are sequences of one-character strings; the      *)
(* fixed texts that the code puts around them (f-string literals) are one  *)
(* symbol each, so that formatting is concatenation and parsing has to     *)
(* take the text apart again.                                              *)
(***************************************************************************)
EXTENDS Integers, Sequences, FiniteSets, TLC

VARIABLES
    mode,          \* self.config.mode
    whitelist,     \* self.config.whitelist_actions (list of patterns)
    confirm_exit,  \* self.config.confirm_exit
    step_limit,    \* self.config.step_limit (0 = no limit)
    n_calls,       \* self.model.n_calls
    hasCreate,     \* hasattr(self.env, "create_snapshot")
    cwdSet,        \* bool(self.env.config.cwd)
    hasRollback,   \* hasattr(self.env, "rollback_snapshot")
    messages,      \* self.messages (the transcript)
    snapshots,     \* self.snapshots (the ledger)
    step_number,   \* self.step_number (the step counter)
    pc,            \* where the control thread is
    action,        \* action["action"] of the current execute_action call
    asked,         \* what should_ask_confirmation returned in that call
    execMode,      \* the mode should_ask_confirmation read in that call
    answer,        \* what the confirmation prompt returned in that call
    callLog,       \* what the current execute_action call has done so far
    lastInput,     \* the line the current prompt chain read last
    lastReport,    \* what the current prompt chain printed last
    raised,        \* the unexpected error that left the loop, if any
    exit_status,   \* the terminating condition that ended the episode
    stepStart,     \* transcript, ledger and counter when the step began
    n_turns,       \* how many turns have been appended to the transcript so far
    returned,      \* the line the prompt returned to its caller last in this step
    issued,        \* the name passed to Environment.create_snapshot last
    created        \* the names for which Environment.create_snapshot returned

vars == <<mode, whitelist, confirm_exit, step_limit, n_calls, hasCreate,
          cwdSet, hasRollback, messages, snapshots, step_number, pc, action,
          asked, execMode, answer, callLog, lastInput, lastReport, raised,
          exit_status, stepStart, n_turns, returned, issued, created>>

config == <<whitelist, confirm_exit, hasCreate, cwdSet, hasRollback>>
ledger == <<snapshots, step_number>>
call   == <<action, asked, execMode, answer, callLog>>
envlog == <<issued, created>>

----------------------------------------------------------------------------
(* Bounds *)

\* The loop is followed while a whole step (two turns) fits into this many
\* turns appended to the transcript overall.
MaxTurns == 6

\* The same budget for the episodes that only exercise the ledger.
MaxLedgerTurns == 8

----------------------------------------------------------------------------
(* Text helpers: str.strip, str.startswith, str.split, int *)

Blank == " "

RECURSIVE LStrip(_)
LStrip(s) == IF s # <<>> /\ Head(s) = Blank THEN LStrip(Tail(s)) ELSE s

RECURSIVE RStrip(_)
RStrip(s) ==
    IF s # <<>> /\ s[Len(s)] = Blank THEN RStrip(SubSeq(s, 1, Len(s) - 1)) ELSE s

Strip(s) == RStrip(LStrip(s))

StartsWith(s, p) == Len(s) >= Len(p) /\ SubSeq(s, 1, Len(p)) = p

RECURSIVE SplitAcc(_, _, _)
SplitAcc(s, cur, acc) ==
    LET done == IF cur = <<>> THEN acc ELSE Append(acc, cur)
    IN  IF s = <<>> THEN done
        ELSE IF Head(s) = Blank THEN SplitAcc(Tail(s), <<>>, done)
        ELSE SplitAcc(Tail(s), Append(cur, Head(s)), acc)

Split(s) == SplitAcc(s, <<>>, <<>>)

Digits == <<"0", "1", "2", "3", "4", "5", "6", "7", "8", "9">>

DigitChars == {Digits[i] : i \in 1..10}

DigitVal(c) == (CHOOSE i \in 1..10 : Digits[i] = c) - 1

\* int(tok) raises ValueError unless tok is a decimal numeral.
IsInt(tok) == tok # <<>> /\ \A i \in 1..Len(tok) : tok[i] \in DigitChars

RECURSIVE ToInt(_)
ToInt(tok) ==
    IF Len(tok) = 1 THEN DigitVal(tok[1])
    ELSE 10 * ToInt(SubSeq(tok, 1, Len(tok) - 1)) + DigitVal(tok[Len(tok)])

\* f"{n}" for a natural number.
RECURSIVE DecStr(_)
DecStr(n) ==
    IF n < 10 THEN <<Digits[n + 1]>> ELSE Append(DecStr(n \div 10), Digits[(n % 10) + 1])

----------------------------------------------------------------------------
(* Input alphabet *)

NoLine == <<"<none>">>

LEmpty   == <<>>
LBlank   == <<" ">>
LHelp    == <<"/", "h">>
LYolo    == <<"/", "y">>
LConfirm == <<"/", "c">>
LHuman   == <<"/", "u">>
LList    == <<"/", "r">>
LRb0     == <<"/", "r", " ", "0">>
LRb1     == <<"/", "r", " ", "1">>
LRbBad   == <<"/", "r", " ", "x">>
LText    == <<"l", "s">>

Lines == {LEmpty, LBlank, LHelp, LYolo, LConfirm, LHuman, LList, LRb0, LRb1,
          LRbBad, LText}

CmdLs == <<"l", "s", " ", "-", "l", "a">>
CmdRm == <<"r", "m", " ", "-", "r", "f", " ", "/">>

\* The commands the language model proposes.
LMCommands == {CmdLs, CmdRm}

\* The lines typed at the "New step limit" prompt.
LimitLines == {<<"0">>, <<"1">>, <<"x">>}

Modes == {"human", "confirm", "yolo"}

ModeTokens == {LHuman, LConfirm, LYolo}

MODE_COMMANDS_MAPPING(tok) ==
    CASE tok = LHuman   -> "human"
      [] tok = LConfirm -> "confirm"
      [] tok = LYolo    -> "yolo"

----------------------------------------------------------------------------
(* Transcript *)

AddMessage(msgs, role, content) == Append(msgs, [role |-> role, content |-> content])

FenceOpen  == "<fence bash>"
FenceClose == "<fence>"

\* The command wrapped as one bash block.
WrapCommand(command) == <<FenceOpen>> \o command \o <<FenceClose>>

\* The base loop's parse_action: the text of the one command block, stripped.
ParseAction(content) == Strip(SubSeq(content, 2, Len(content) - 1))

TaskMessages ==
    AddMessage(AddMessage(<<>>, "system", <<"<system prompt>">>), "user", <<"<task>">>)

MsgInterrupted(text) == <<"Interrupted by user: ">> \o text
MsgDefaultInterrupt  == <<"Temporary interruption caught.">>
MsgToHuman           == <<"Command not executed. Switching to human mode">>
MsgRejected(text)    ==
    <<"Command not executed. The user rejected your command with the following message: ">> \o text
MsgNewTask(text)     == <<"The user added a new task: ">> \o text

----------------------------------------------------------------------------
(* ModeController *)

\* re.match(p, s) for patterns made of literal characters and ".": the
\* pattern has to match at the start of s, not all of it.
RECURSIVE ReMatch(_, _)
ReMatch(p, s) ==
    IF p = <<>> THEN TRUE
    ELSE IF s = <<>> THEN FALSE
    ELSE (Head(p) = "." \/ Head(p) = Head(s)) /\ ReMatch(Tail(p), Tail(s))

\* The whole command has to match, as re.fullmatch would have it.
RECURSIVE ReFullMatch(_, _)
ReFullMatch(p, s) ==
    IF p = <<>> THEN s = <<>>
    ELSE IF s = <<>> THEN FALSE
    ELSE (Head(p) = "." \/ Head(p) = Head(s)) /\ ReFullMatch(Tail(p), Tail(s))

\* Variant: the whitelist is matched against the whole command.
should_ask_full_match(m, W, act) ==
    m = "confirm" /\ ~ \E i \in 1..Len(W) : ReFullMatch(W[i], act)

should_ask_confirmation(m, W, act) ==
    m = "confirm" /\ ~ \E i \in 1..Len(W) : ReMatch(W[i], act)

----------------------------------------------------------------------------
(* InteractionPrompt *)

\* Variant: the check for the mode already being active is missing, a mode
\* token is always taken as a switch.
PromptCaseNoAlready(m, line) ==
    IF line = LHelp THEN "help"
    ELSE IF StartsWith(line, LList) THEN "rollback"
    ELSE IF line \in ModeTokens THEN "switch"
    ELSE "plain"

\* Which branch of _prompt_and_handle_special a line takes, in the order
\* the code tests them.
PromptCase(m, line) ==
    IF line = LHelp THEN "help"
    ELSE IF StartsWith(line, LList) THEN "rollback"
    ELSE IF line \in ModeTokens
         THEN IF m = MODE_COMMANDS_MAPPING(line) THEN "already" ELSE "switch"
    ELSE "plain"

\* The prompt returns the line to its caller.
Returns(m, line) == PromptCase(m, line) \in {"switch", "plain"}

\* Variant: a mode token is returned without setting the mode.
ModeAfterKeeps(m, line) == m

\* self.config.mode after the prompt returned the line.
ModeAfter(m, line) ==
    IF PromptCase(m, line) = "switch" THEN MODE_COMMANDS_MAPPING(line) ELSE m

\* Variant: only "/u" aborts, any other text counts as a confirmation.
ConfirmOutcomeLax(line) ==
    IF Strip(line) = LHuman THEN "to_human" ELSE "confirmed"

\* ask_confirmation on the line the prompt returned.
ConfirmOutcome(line) ==
    LET user_input == Strip(line)
    IN  IF user_input \in {LEmpty, LYolo} THEN "confirmed"
        ELSE IF user_input = LHuman THEN "to_human"
        ELSE "rejected"

ConfirmMessage(line) ==
    IF ConfirmOutcome(line) = "to_human" THEN MsgToHuman ELSE MsgRejected(Strip(line))

\* The text step() puts into the exception after an interruption.
InterruptionMessage(line) ==
    LET interruption_message == Strip(line)
    IN  IF interruption_message = <<>> \/ interruption_message \in ModeTokens
        THEN MsgDefaultInterrupt
        ELSE interruption_message

----------------------------------------------------------------------------
(* SnapshotLedger *)

\* Variant: the name is derived from the counter after the increment.
SnapshotNameIncremented(n) == <<"step-">> \o DecStr(n + 1)

\* f"step-{self.step_number}"
SnapshotName(n) == <<"step-">> \o DecStr(n)

SnapshotInfo(name, message_count, step) ==
    [name |-> name, message_count |-> message_count, step_number |-> step]

\* What the environment's create_snapshot / rollback_snapshot call does.
CreateOutcomes   == {"ok", "error"}
RollbackOutcomes == {"ok", "value_error", "error"}

\* Variant: the record is appended but the counter is not incremented.
CreateSnapshotNoIncrement(msgs, snaps, stepno, canCreate, cwd, envOut) ==
    IF canCreate /\ cwd
    THEN IF envOut = "ok"
         THEN [snapshots   |-> Append(snaps, SnapshotInfo(SnapshotName(stepno), Len(msgs), stepno)),
               step_number |-> stepno,
               event       |-> "snapshot_ok"]
         ELSE [snapshots |-> snaps, step_number |-> stepno, event |-> "snapshot_failed"]
    ELSE [snapshots |-> snaps, step_number |-> stepno, event |-> "snapshot_skipped"]

\* Variant: the counter is incremented before the environment call, so a
\* failed call still advances it.
CreateSnapshotCountsFailure(msgs, snaps, stepno, canCreate, cwd, envOut) ==
    IF canCreate /\ cwd
    THEN IF envOut = "ok"
         THEN [snapshots   |-> Append(snaps, SnapshotInfo(SnapshotName(stepno), Len(msgs), stepno)),
               step_number |-> stepno + 1,
               event       |-> "snapshot_ok"]
         ELSE [snapshots |-> snaps, step_number |-> stepno + 1, event |-> "snapshot_failed"]
    ELSE [snapshots |-> snaps, step_number |-> stepno, event |-> "snapshot_skipped"]

\* _create_snapshot: the ledger and the counter afterwards, and what happened.
CreateSnapshotResult(msgs, snaps, stepno, canCreate, cwd, envOut) ==
    IF canCreate /\ cwd
    THEN IF envOut = "ok"
         THEN [snapshots   |-> Append(snaps, SnapshotInfo(SnapshotName(stepno), Len(msgs), stepno)),
               step_number |-> stepno + 1,
               event       |-> "snapshot_ok"]
         ELSE [snapshots |-> snaps, step_number |-> stepno, event |-> "snapshot_failed"]
    ELSE [snapshots |-> snaps, step_number |-> stepno, event |-> "snapshot_skipped"]

\* next((s for s in self.snapshots if s.step_number == target_step), None)
HasSnapshot(snaps, target) == \E i \in 1..Len(snaps) : snaps[i].step_number = target

FindSnapshot(snaps, target) ==
    snaps[CHOOSE i \in 1..Len(snaps) :
            /\ snaps[i].step_number = target
            /\ \A j \in 1..(i - 1) : snaps[j].step_number # target]

\* Variant: the record after the target is kept as well.
KeepUpToNext(snaps, target) == SelectSeq(snaps, LAMBDA s : s.step_number <= target + 1)

\* [s for s in self.snapshots if s.step_number <= target_step]
KeepUpTo(snaps, target) == SelectSeq(snaps, LAMBDA s : s.step_number <= target)

\* What _handle_rollback leaves behind: transcript, ledger and counter,
\* what was printed, and whether an exception left the handler.
Handled(msgs, snaps, stepno, report, exc) ==
    [messages |-> msgs, snapshots |-> snaps, step_number |-> stepno,
     report |-> report, raises |-> exc]

\* Variant: the slice keeps the entries from n on.
TruncateKeepsTail(msgs, n) == SubSeq(msgs, (IF n < Len(msgs) THEN n ELSE Len(msgs)) + 1, Len(msgs))

\* self.messages[:n]
Truncate(msgs, n) == SubSeq(msgs, 1, IF n < Len(msgs) THEN n ELSE Len(msgs))

\* Variant: the ledger is left as it is.
RolledBackKeepLedger(msgs, snaps, target_step) ==
    Handled(Truncate(msgs, FindSnapshot(snaps, target_step).message_count),
            snaps, target_step + 1, "rolled_back", FALSE)

\* The three assignments that follow a rollback_snapshot call that returned.
RolledBack(msgs, snaps, target_step) ==
    Handled(Truncate(msgs, FindSnapshot(snaps, target_step).message_count),
            KeepUpTo(snaps, target_step), target_step + 1, "rolled_back", FALSE)

\* Variant: the transcript is truncated before the environment is called,
\* so a failing call leaves it truncated.
EnvRollbackTruncatesFirst(msgs, snaps, stepno, target_step, envOut) ==
    LET cut == Truncate(msgs, FindSnapshot(snaps, target_step).message_count)
    IN  IF envOut = "value_error" THEN Handled(cut, snaps, stepno, "invalid", FALSE)
        ELSE IF envOut = "error" THEN Handled(cut, snaps, stepno, "none", TRUE)
        ELSE Handled(cut, KeepUpTo(snaps, target_step), target_step + 1, "rolled_back", FALSE)

\* The environment's rollback_snapshot is called first: ValueError and
\* IndexError are caught as an invalid command, any other exception leaves
\* the handler, and only a call that returns is followed by the assignments.
EnvRollback(msgs, snaps, stepno, target_step, envOut) ==
    IF envOut = "value_error" THEN Handled(msgs, snaps, stepno, "invalid", FALSE)
    ELSE IF envOut = "error" THEN Handled(msgs, snaps, stepno, "none", TRUE)
    ELSE RolledBack(msgs, snaps, target_step)

\* _handle_rollback up to its closing re-prompt.
RollbackResult(msgs, snaps, stepno, canRollback, line, envOut) ==
    LET parts == Split(line)
    IN  IF Len(parts) = 1
        THEN Handled(msgs, snaps, stepno,
                     IF snaps = <<>> THEN "no_snapshots" ELSE "listing", FALSE)
        ELSE IF ~IsInt(parts[2]) THEN Handled(msgs, snaps, stepno, "invalid", FALSE)
        ELSE IF ~HasSnapshot(snaps, ToInt(parts[2]))
             THEN Handled(msgs, snaps, stepno, "not_found", FALSE)
        ELSE IF ~canRollback THEN Handled(msgs, snaps, stepno, "unsupported", FALSE)
        ELSE EnvRollback(msgs, snaps, stepno, ToInt(parts[2]), envOut)

----------------------------------------------------------------------------
(* Base loop *)

\* The base query's check of the step limit against the calls made.
LimitsExceeded(limit, calls) == 0 < limit /\ limit <= calls

\* The mode the configuration starts with by default.
InitMode == "confirm"

\* The step limit the episode is configured with.
InitStepLimit == 1

\* The capabilities of the environment: create_snapshot, cwd, rollback_snapshot.
EnvKinds == {<<TRUE, TRUE, TRUE>>, <<TRUE, TRUE, FALSE>>, <<FALSE, TRUE, TRUE>>,
             <<TRUE, FALSE, TRUE>>}

NoCall == [action |-> NoLine, asked |-> FALSE, execMode |-> "none",
           answer |-> NoLine, callLog |-> <<>>]

PromptPcs == {"query_prompt", "confirm_prompt", "finish_prompt", "interrupt_prompt"}

\* Where step()'s try block can be when the interruption arrives.
InterruptiblePcs == {"query_prompt", "lm_query", "limits_prompt", "confirm_prompt",
                     "create_snapshot", "base_exec", "finish_prompt"}

Init ==
    /\ mode = InitMode
    /\ whitelist = <<LText>>
    /\ confirm_exit \in BOOLEAN
    /\ step_limit = InitStepLimit
    /\ n_calls = 0
    /\ \E k \in EnvKinds : hasCreate = k[1] /\ cwdSet = k[2] /\ hasRollback = k[3]
    /\ messages = <<>>
    /\ snapshots = <<>>
    /\ step_number = 0
    /\ pc = "init"
    /\ action = NoCall.action
    /\ asked = NoCall.asked
    /\ execMode = NoCall.execMode
    /\ answer = NoCall.answer
    /\ callLog = NoCall.callLog
    /\ lastInput = NoLine
    /\ lastReport = "none"
    /\ raised = "none"
    /\ exit_status = "none"
    /\ stepStart = [messages |-> <<>>, snapshots |-> <<>>, step_number |-> 0]
    /\ n_turns = 0
    /\ returned = NoLine
    /\ issued = NoLine
    /\ created = {}

\* run(task): the transcript starts with the system and the task message.
Run ==
    /\ pc = "init"
    /\ messages' = TaskMessages
    /\ n_turns' = Len(TaskMessages)
    /\ pc' = "step"
    /\ UNCHANGED <<mode, config, step_limit, n_calls, ledger, call,
                   lastInput, lastReport, raised, exit_status, stepStart>>
    /\ UNCHANGED <<returned, envlog>>

\* The loop calls step(), step() calls query().
StepBeginWithin(maxTurns) ==
    /\ pc = "step"
    /\ n_turns + 2 <= maxTurns
    /\ UNCHANGED n_turns
    /\ stepStart' = [messages |-> messages, snapshots |-> snapshots,
                     step_number |-> step_number]
    /\ pc' = IF mode = "human" THEN "query_prompt" ELSE "lm_query"
    /\ lastInput' = NoLine
    /\ lastReport' = "none"
    /\ action' = NoCall.action
    /\ asked' = NoCall.asked
    /\ execMode' = NoCall.execMode
    /\ answer' = NoCall.answer
    /\ callLog' = NoCall.callLog
    /\ UNCHANGED <<mode, config, step_limit, n_calls, messages, ledger, raised,
                   exit_status>>
    /\ returned' = NoLine
    /\ UNCHANGED envlog

StepBegin == StepBeginWithin(MaxTurns)

----------------------------------------------------------------------------
(* The prompt: lines that are handled and followed by a new prompt *)

\* "/h": the help is printed and the same prompt comes again.
PromptHelp(line) ==
    /\ pc \in PromptPcs
    /\ PromptCase(mode, line) = "help"
    /\ lastInput' = line
    /\ lastReport' = "help"
    /\ UNCHANGED <<n_turns, mode, config, step_limit, n_calls, messages, ledger, pc, call,
                   raised, exit_status, stepStart>>
    /\ UNCHANGED <<returned, envlog>>

\* A mode token that names the current mode: refused, prompt again.
PromptAlready(line) ==
    /\ pc \in PromptPcs
    /\ PromptCase(mode, line) = "already"
    /\ lastInput' = line
    /\ lastReport' = "already"
    /\ UNCHANGED <<n_turns, mode, config, step_limit, n_calls, messages, ledger, pc, call,
                   raised, exit_status, stepStart>>
    /\ UNCHANGED <<returned, envlog>>

\* A line that starts with "/r": _handle_rollback, which ends in a new
\* prompt unless the environment's rollback_snapshot raises something
\* other than ValueError or IndexError.
PromptRollback(line, envOut) ==
    /\ pc \in PromptPcs
    /\ PromptCase(mode, line) = "rollback"
    /\ LET r == RollbackResult(messages, snapshots, step_number, hasRollback, line, envOut)
       IN  /\ messages' = r.messages
           /\ snapshots' = r.snapshots
           /\ step_number' = r.step_number
           /\ lastInput' = line
           /\ lastReport' = r.report
           /\ pc' = IF r.raises THEN "crashed" ELSE pc
           /\ raised' = IF r.raises THEN "rollback_snapshot" ELSE raised
    /\ UNCHANGED <<n_turns, mode, config, step_limit, n_calls, call, exit_status, stepStart>>
    /\ UNCHANGED <<returned, envlog>>

----------------------------------------------------------------------------
(* query *)

\* Variant: an empty line also goes on to the model.
FallsThroughOnEmpty(command) == command \in {LYolo, LConfirm, LEmpty}

\* case "/y" | "/c": go on to the base query.
FallsThroughToModel(command) == command \in {LYolo, LConfirm}

\* Human mode: the prompt returns; "/y" or "/c" goes on to the model, any
\* other line becomes the assistant turn.
QueryReturn(line) ==
    /\ pc = "query_prompt"
    /\ Returns(mode, line)
    /\ mode' = ModeAfter(mode, line)
    /\ IF FallsThroughToModel(line)
       THEN /\ pc' = "lm_query"
            /\ UNCHANGED messages
       ELSE /\ pc' = "execute_action"
            /\ messages' = AddMessage(messages, "assistant", WrapCommand(line))
    /\ lastInput' = NoLine
    /\ lastReport' = "none"
    /\ UNCHANGED <<config, step_limit, n_calls, ledger, call, raised, exit_status,
                   stepStart>>
    /\ n_turns' = IF messages' = messages THEN n_turns ELSE n_turns + 1
    /\ returned' = line
    /\ UNCHANGED envlog

\* The base query within its limits: the model answers with a command.
LMQuery(cmd) ==
    /\ pc = "lm_query"
    /\ ~LimitsExceeded(step_limit, n_calls)
    /\ n_calls' = n_calls + 1
    /\ messages' = AddMessage(messages, "assistant", WrapCommand(cmd))
    /\ pc' = "execute_action"
    /\ UNCHANGED <<mode, config, step_limit, ledger, call, lastInput, lastReport,
                   raised, exit_status, stepStart>>
    /\ n_turns' = n_turns + 1
    /\ UNCHANGED <<returned, envlog>>

\* The base query raises LimitsExceeded; query() catches it and asks.
LimitsCaught ==
    /\ pc = "lm_query"
    /\ LimitsExceeded(step_limit, n_calls)
    /\ pc' = "limits_prompt"
    /\ UNCHANGED <<n_turns, mode, config, step_limit, n_calls, messages, ledger, call,
                   lastInput, lastReport, raised, exit_status, stepStart>>
    /\ UNCHANGED <<returned, envlog>>

\* int(input(...)) raises ValueError, which nothing catches.
LimitsBadInput(line) ==
    /\ pc = "limits_prompt"
    /\ ~IsInt(line)
    /\ pc' = "crashed"
    /\ raised' = "new_limit"
    /\ UNCHANGED <<n_turns, mode, config, step_limit, n_calls, messages, ledger, call,
                   lastInput, lastReport, exit_status, stepStart>>
    /\ UNCHANGED <<returned, envlog>>

\* The new limit is stored and the base query runs again, within the limit.
LimitsRetryOk(line, cmd) ==
    /\ pc = "limits_prompt"
    /\ IsInt(line)
    /\ ~LimitsExceeded(ToInt(line), n_calls)
    /\ step_limit' = ToInt(line)
    /\ n_calls' = n_calls + 1
    /\ messages' = AddMessage(messages, "assistant", WrapCommand(cmd))
    /\ pc' = "execute_action"
    /\ UNCHANGED <<mode, config, ledger, call, lastInput, lastReport, raised,
                   exit_status, stepStart>>
    /\ n_turns' = n_turns + 1
    /\ UNCHANGED <<returned, envlog>>

\* The new limit is stored and the base query runs again, outside the try:
\* its LimitsExceeded leaves query() and step(), and the base loop ends the
\* episode with it.
LimitsRetryExceeded(line) ==
    /\ pc = "limits_prompt"
    /\ IsInt(line)
    /\ LimitsExceeded(ToInt(line), n_calls)
    /\ step_limit' = ToInt(line)
    /\ messages' = AddMessage(messages, "user", <<"<limits exceeded>">>)
    /\ pc' = "done"
    /\ exit_status' = "LimitsExceeded"
    /\ UNCHANGED <<mode, config, n_calls, ledger, call, lastInput, lastReport,
                   raised, stepStart>>
    /\ n_turns' = n_turns + 1
    /\ UNCHANGED <<returned, envlog>>

----------------------------------------------------------------------------
(* execute_action *)

\* Variant: the snapshot is taken only on the confirmation path.
ExecuteActionSkipsSnapshot(ask) == IF ask THEN "confirm_prompt" ELSE "base_exec"

\* Where execute_action goes after should_ask_confirmation: to the
\* confirmation, or straight to _create_snapshot.
ExecuteActionNext(ask) == IF ask THEN "confirm_prompt" ELSE "create_snapshot"

\* The base loop parses the response and calls execute_action, which asks
\* should_ask_confirmation.
ExecuteAction ==
    /\ pc = "execute_action"
    /\ LET act == ParseAction(messages[Len(messages)].content)
           ask == should_ask_confirmation(mode, whitelist, act)
       IN  /\ action' = act
           /\ asked' = ask
           /\ execMode' = mode
           /\ answer' = NoLine
           /\ callLog' = IF ask THEN <<"ask">> ELSE <<>>
           /\ pc' = ExecuteActionNext(ask)
    /\ lastInput' = NoLine
    /\ lastReport' = "none"
    /\ UNCHANGED <<n_turns, mode, config, step_limit, n_calls, messages, ledger, raised,
                   exit_status, stepStart>>
    /\ UNCHANGED <<returned, envlog>>

\* The confirmation prompt returns: confirmed, or a non-terminating
\* exception that the base loop appends to the transcript.
ConfirmReturn(line) ==
    /\ pc = "confirm_prompt"
    /\ Returns(mode, line)
    /\ mode' = ModeAfter(mode, line)
    /\ answer' = line
    /\ IF ConfirmOutcome(line) = "confirmed"
       THEN /\ pc' = "create_snapshot"
            /\ UNCHANGED <<messages, callLog>>
       ELSE /\ pc' = "step"
            /\ callLog' = Append(callLog, "rejected")
            /\ messages' = AddMessage(messages, "user", ConfirmMessage(line))
    /\ lastInput' = NoLine
    /\ lastReport' = "none"
    /\ UNCHANGED <<config, step_limit, n_calls, ledger, action, asked, execMode,
                   raised, exit_status, stepStart>>
    /\ n_turns' = IF messages' = messages THEN n_turns ELSE n_turns + 1
    /\ returned' = line
    /\ UNCHANGED envlog

\* _create_snapshot, then on to the base executor.
CreateSnapshot(envOut) ==
    /\ pc = "create_snapshot"
    /\ LET r == CreateSnapshotResult(messages, snapshots, step_number, hasCreate,
                                     cwdSet, envOut)
       IN  /\ snapshots' = r.snapshots
           /\ step_number' = r.step_number
           /\ callLog' = Append(callLog, r.event)
    /\ pc' = "base_exec"
    /\ UNCHANGED <<n_turns, mode, config, step_limit, n_calls, messages, action, asked,
                   execMode, answer, lastInput, lastReport, raised, exit_status,
                   stepStart>>
    /\ issued' = IF hasCreate /\ cwdSet THEN SnapshotName(step_number) ELSE issued
    /\ created' = IF callLog'[Len(callLog')] = "snapshot_ok"
                  THEN created \cup {SnapshotName(step_number)}
                  ELSE created
    /\ UNCHANGED returned

\* The base executor runs the command, has_finished lets it pass and the
\* observation is appended.
BaseExecuteOk ==
    /\ pc = "base_exec"
    /\ callLog' = Append(callLog, "execute")
    /\ messages' = AddMessage(messages, "user", <<"<observation>">>)
    /\ pc' = "step"
    /\ UNCHANGED <<mode, config, step_limit, n_calls, ledger, action, asked,
                   execMode, answer, lastInput, lastReport, raised, exit_status,
                   stepStart>>
    /\ n_turns' = n_turns + 1
    /\ UNCHANGED <<returned, envlog>>

\* The base executor runs the command and the base has_finished raises
\* Submitted: with confirm_exit the user is asked, else the episode ends.
BaseExecuteSubmitted ==
    /\ pc = "base_exec"
    /\ callLog' = Append(callLog, "execute")
    /\ IF confirm_exit
       THEN /\ pc' = "finish_prompt"
            /\ UNCHANGED <<messages, exit_status>>
       ELSE /\ pc' = "done"
            /\ exit_status' = "Submitted"
            /\ messages' = AddMessage(messages, "user", <<"<submission>">>)
    /\ lastInput' = NoLine
    /\ lastReport' = "none"
    /\ UNCHANGED <<mode, config, step_limit, n_calls, ledger, action, asked,
                   execMode, answer, raised, stepStart>>
    /\ n_turns' = IF messages' = messages THEN n_turns ELSE n_turns + 1
    /\ UNCHANGED <<returned, envlog>>

\* Variant: the answer is taken as typed.
NewTaskUnstripped(line) == line

\* new_task in has_finished: the answer to the exit prompt, stripped.
NewTask(line) == Strip(line)

\* The exit prompt returns: a new task keeps the episode going, a blank
\* line lets Submitted through.
FinishReturn(line) ==
    /\ pc = "finish_prompt"
    /\ Returns(mode, line)
    /\ mode' = ModeAfter(mode, line)
    /\ IF NewTask(line) # <<>>
       THEN /\ pc' = "step"
            /\ messages' = AddMessage(messages, "user", MsgNewTask(NewTask(line)))
            /\ UNCHANGED exit_status
       ELSE /\ pc' = "done"
            /\ exit_status' = "Submitted"
            /\ messages' = AddMessage(messages, "user", <<"<submission>">>)
    /\ lastInput' = NoLine
    /\ lastReport' = "none"
    /\ UNCHANGED <<config, step_limit, n_calls, ledger, call, raised, stepStart>>
    /\ n_turns' = n_turns + 1
    /\ returned' = line
    /\ UNCHANGED envlog

----------------------------------------------------------------------------
(* step: interruption *)

\* KeyboardInterrupt arrives inside step()'s try block; the handler prompts.
Interrupt ==
    /\ pc \in InterruptiblePcs
    /\ pc' = "interrupt_prompt"
    /\ lastInput' = NoLine
    /\ lastReport' = "none"
    /\ UNCHANGED <<n_turns, mode, config, step_limit, n_calls, messages, ledger, call,
                   raised, exit_status, stepStart>>
    /\ UNCHANGED <<returned, envlog>>

\* The handler's prompt returns: the non-terminating exception is appended
\* to the transcript by the base loop, which goes on.
InterruptReturn(line) ==
    /\ pc = "interrupt_prompt"
    /\ Returns(mode, line)
    /\ mode' = ModeAfter(mode, line)
    /\ messages' = AddMessage(messages, "user", MsgInterrupted(InterruptionMessage(line)))
    /\ pc' = "step"
    /\ lastInput' = NoLine
    /\ lastReport' = "none"
    /\ UNCHANGED <<config, step_limit, n_calls, ledger, call, raised, exit_status,
                   stepStart>>
    /\ n_turns' = n_turns + 1
    /\ returned' = line
    /\ UNCHANGED envlog

\* KeyboardInterrupt arrives again while the handler shows its prompt:
\* nothing catches it.
InterruptInHandler ==
    /\ pc = "interrupt_prompt"
    /\ lastInput = NoLine
    /\ pc' = "crashed"
    /\ raised' = "keyboard_interrupt"
    /\ UNCHANGED <<n_turns, mode, config, step_limit, n_calls, messages, ledger, call,
                   lastInput, lastReport, exit_status, stepStart>>
    /\ UNCHANGED <<returned, envlog>>

----------------------------------------------------------------------------

Next ==
    \/ Run
    \/ StepBegin
    \/ \E line \in Lines : PromptHelp(line)
    \/ \E line \in Lines : PromptAlready(line)
    \/ \E line \in Lines, envOut \in RollbackOutcomes : PromptRollback(line, envOut)
    \/ \E line \in Lines : QueryReturn(line)
    \/ \E cmd \in LMCommands : LMQuery(cmd)
    \/ LimitsCaught
    \/ \E line \in LimitLines : LimitsBadInput(line)
    \/ \E line \in LimitLines, cmd \in LMCommands : LimitsRetryOk(line, cmd)
    \/ \E line \in LimitLines : LimitsRetryExceeded(line)
    \/ ExecuteAction
    \/ \E line \in Lines : ConfirmReturn(line)
    \/ \E envOut \in CreateOutcomes : CreateSnapshot(envOut)
    \/ BaseExecuteOk
    \/ BaseExecuteSubmitted
    \/ \E line \in Lines : FinishReturn(line)
    \/ Interrupt
    \/ \E line \in Lines : InterruptReturn(line)
    \/ InterruptInHandler

Spec == Init /\ [][Next]_vars

----------------------------------------------------------------------------
(* should_ask_confirmation on its own: every mode, whitelist and command *)

PatLs   == <<"l", "s">>
PatRm   == <<"r", "m">>
PatDot  == <<"l", ".">>
PatS    == <<"s">>
PatLong == <<"l", "s", " ", "-", "l", "a", " ", "x">>

AskWhitelists == {<<>>, <<PatLs>>, <<PatRm, PatLs>>, <<PatDot>>, <<PatS>>, <<PatLong>>,
                  <<LEmpty>>}

AskCommands == {CmdLs, CmdRm, <<"l", "s">>, <<"l", "x">>, <<"l">>, <<>>}

InitAsk ==
    /\ mode \in Modes
    /\ whitelist \in AskWhitelists
    /\ action \in AskCommands
    /\ confirm_exit = TRUE
    /\ step_limit = InitStepLimit
    /\ n_calls = 0
    /\ hasCreate = TRUE
    /\ cwdSet = TRUE
    /\ hasRollback = TRUE
    /\ messages = <<>>
    /\ snapshots = <<>>
    /\ step_number = 0
    /\ pc = "ask_input"
    /\ asked = NoCall.asked
    /\ execMode = NoCall.execMode
    /\ answer = NoCall.answer
    /\ callLog = NoCall.callLog
    /\ lastInput = NoLine
    /\ lastReport = "none"
    /\ raised = "none"
    /\ exit_status = "none"
    /\ stepStart = [messages |-> <<>>, snapshots |-> <<>>, step_number |-> 0]
    /\ n_turns = 0
    /\ returned = NoLine
    /\ issued = NoLine
    /\ created = {}

AskApply ==
    /\ pc = "ask_input"
    /\ asked' = should_ask_confirmation(mode, whitelist, action)
    /\ execMode' = mode
    /\ pc' = "asked"
    /\ UNCHANGED <<n_turns, mode, config, step_limit, n_calls, messages, ledger, action,
                   answer, callLog, lastInput, lastReport, raised, exit_status, stepStart>>
    /\ UNCHANGED <<returned, envlog>>

NextAsk == AskApply

SpecAsk == InitAsk /\ [][NextAsk]_vars

----------------------------------------------------------------------------
(* Properties *)

InLog(e) == \E i \in 1..Len(callLog) : callLog[i] = e

SnapshotEvents == {"snapshot_ok", "snapshot_failed", "snapshot_skipped"}

\* The pattern matches the start of the command.
MatchesStart(p, c) ==
    /\ Len(p) <= Len(c)
    /\ \A i \in 1..Len(p) : p[i] = "." \/ p[i] = c[i]

Whitelisted(c) == \E i \in 1..Len(whitelist) : MatchesStart(whitelist[i], c)

\* The current execute_action call has reached the base executor.
Delegated == pc = "base_exec" \/ InLog("execute")

\* The current execute_action call is one that Confirm mode does not exempt.
NeedsConfirmation == action # NoLine /\ execMode = "confirm" /\ ~Whitelisted(action)

\* C1 as stated: in Confirm mode a command that matches no whitelist pattern
\* reaches the base executor only if the confirmation prompt of the same
\* call returned the empty line or "/y"; after any other answer the call is
\* aborted and the base executor is not reached.
C1_ConfirmedByEmptyOrYolo ==
    NeedsConfirmation =>
        /\ Delegated => answer \in {LEmpty, LYolo}
        /\ (answer # NoLine /\ answer \notin {LEmpty, LYolo}) =>
               (~Delegated /\ pc # "create_snapshot" /\ InLog("rejected"))

\* C1 amended: the same with the answer taken after surrounding whitespace
\* is stripped, so that a line of blanks confirms like the empty line.
C1_ConfirmedByStrippedEmptyOrYolo ==
    NeedsConfirmation =>
        /\ (Delegated \/ pc = "create_snapshot") =>
               (answer # NoLine /\ Strip(answer) \in {LEmpty, LYolo})
        /\ (answer # NoLine /\ Strip(answer) \notin {LEmpty, LYolo}) =>
               (~Delegated /\ pc # "create_snapshot" /\ InLog("rejected")
                /\ ~InLog("execute"))

C1_Witness ==
    /\ NeedsConfirmation
    /\ InLog("execute")
    /\ answer = LBlank
    /\ action = CmdRm

\* C2: should_ask_confirmation is false in Yolo and Human mode whatever the
\* whitelist, and in Confirm mode it is false exactly when some whitelist
\* pattern matches the start of the command.
C2_ShouldAsk ==
    pc = "asked" =>
        /\ execMode \in {"yolo", "human"} => ~asked
        /\ execMode = "confirm" => (~asked <=> Whitelisted(action))

C2_Witness ==
    /\ pc = "asked"
    /\ execMode = "confirm"
    /\ whitelist = <<PatLs>>
    /\ action = CmdLs
    /\ ~asked

\* A step of the prompt in which `/r N` succeeded.
RollbackSucceeds == pc \in PromptPcs /\ lastReport' = "rolled_back"

RequestedStep == ToInt(Split(lastInput')[2])

\* C3: right after `/r N` succeeds the transcript is as long as the
\* message_count recorded for step N, the ledger holds exactly the former
\* records with step_number <= N, in their order, and the counter is N + 1.
C3_RollbackAtomic ==
    [][RollbackSucceeds =>
         /\ \E i \in 1..Len(snapshots) :
                /\ snapshots[i].step_number = RequestedStep
                /\ Len(messages') = snapshots[i].message_count
         /\ Len(snapshots') <= Len(snapshots)
         /\ snapshots' = SubSeq(snapshots, 1, Len(snapshots'))
         /\ \A i \in 1..Len(snapshots) :
                (i <= Len(snapshots')) <=> (snapshots[i].step_number <= RequestedStep)
         /\ step_number' = RequestedStep + 1]_vars

\* A rollback to step 0 that dropped the record of step 1 and the turns
\* that followed the first snapshot.
C3_Witness ==
    /\ lastReport = "rolled_back"
    /\ lastInput = LRb0
    /\ InLog("snapshot_ok")
    /\ Len(stepStart.snapshots) = 1
    /\ Len(snapshots) = 1
    /\ step_number = 1
    /\ Len(messages) = snapshots[1].message_count
    /\ Len(messages) < Len(stepStart.messages)

\* A step of the prompt in which a rollback request `/r N` did not succeed:
\* no record, no integer, no capability, or the environment call raised.
RollbackFails ==
    /\ pc \in PromptPcs
    /\ Len(Split(lastInput')) > 1
    /\ StartsWith(lastInput', LList)
    /\ \/ lastReport' \in {"not_found", "invalid", "unsupported"}
       \/ pc' = "crashed" /\ raised' = "rollback_snapshot"

\* C4: a rollback request that does not succeed leaves the transcript, the
\* ledger and the step counter as they were.
C4_FailedRollbackChangesNothing ==
    [][RollbackFails => UNCHANGED <<messages, snapshots, step_number>>]_vars

\* The environment's rollback_snapshot raised for an existing record.
C4_Witness ==
    /\ pc = "crashed"
    /\ raised = "rollback_snapshot"
    /\ lastInput = LRb0
    /\ Len(snapshots) = 2
    /\ Len(messages) > snapshots[1].message_count

\* C5: the records of the ledger carry the step numbers 0, 1, 2, ... in
\* order, their message_count never decreases, and the step counter is the
\* number of records.
C5_LedgerConsistent ==
    /\ \A i \in 1..Len(snapshots) : snapshots[i].step_number = i - 1
    /\ \A i \in 2..Len(snapshots) :
           snapshots[i - 1].message_count <= snapshots[i].message_count
    /\ step_number = Len(snapshots)

\* A snapshot taken after a rollback inside the confirmation prompt: two
\* records with the same message_count.
C5_Witness ==
    /\ Len(snapshots) = 2
    /\ snapshots[1].message_count = snapshots[2].message_count
    /\ step_number = 2

\* C6: when the environment's create_snapshot raises, or the capability or
\* the working directory is missing, _create_snapshot leaves the ledger and
\* the counter alone, and execute_action goes on to the base executor.
C6_FailedSnapshotDoesNotBlock ==
    [][(pc = "create_snapshot" /\ pc' # "interrupt_prompt") =>
         /\ pc' = "base_exec"
         /\ callLog'[Len(callLog')] \in SnapshotEvents
         /\ callLog'[Len(callLog')] \in {"snapshot_failed", "snapshot_skipped"} =>
                UNCHANGED <<snapshots, step_number>>]_vars

C6_Witness ==
    /\ InLog("snapshot_failed")
    /\ InLog("execute")
    /\ hasCreate /\ cwdSet
    /\ snapshots = <<>>
    /\ step_number = 0

\* C7 as stated: when an interruption is caught, the transcript, the ledger
\* and the step counter are as they were when the interrupted step began.
C7_InterruptionRestoresStepStart ==
    (pc = "interrupt_prompt" /\ lastInput = NoLine) =>
        /\ messages = stepStart.messages
        /\ snapshots = stepStart.snapshots
        /\ step_number = stepStart.step_number

\* C8 as stated: every execute_action call that has come to its end, by
\* execution or by rejection, has attempted a snapshot, and before the base
\* executor.
C8_SnapshotInEveryCall ==
    /\ (InLog("execute") \/ InLog("rejected")) =>
           \E i \in 1..Len(callLog) : callLog[i] \in SnapshotEvents
    /\ \A j \in 1..Len(callLog) :
           callLog[j] = "execute" => \E i \in 1..(j - 1) : callLog[i] \in SnapshotEvents

\* C8 amended: a call that reaches the base executor has attempted a
\* snapshot right before it, whether the confirmation was not required or
\* was given; a call whose confirmation was rejected attempts no snapshot
\* and does not reach the base executor.
C8_SnapshotBeforeExecution ==
    /\ pc = "base_exec" => (callLog # <<>> /\ callLog[Len(callLog)] \in SnapshotEvents)
    /\ \A j \in 1..Len(callLog) :
           callLog[j] = "execute" => (j > 1 /\ callLog[j - 1] \in SnapshotEvents)
    /\ InLog("rejected") =>
           /\ \A i \in 1..Len(callLog) : callLog[i] \notin SnapshotEvents \cup {"execute"}
           /\ pc \notin {"create_snapshot", "base_exec"}

\* A confirmed call: asked, snapshot, executed.
C8_Witness ==
    /\ callLog = <<"ask", "snapshot_ok", "execute">>
    /\ answer = LEmpty

\* C9 as stated: an episode that ends, ends with the submitted condition;
\* a limits-exceeded condition never ends it.
C9_OnlySubmittedEnds == pc = "done" => exit_status = "Submitted"

\* C10 as stated: no exception leaves the rollback handler.
C10_RollbackHandlerNeverRaises == raised # "rollback_snapshot"

----------------------------------------------------------------------------
(* Properties of the mode, the hooks and the ledger *)

\* A step in which the prompt returns a line to its caller.
ReturnStep == pc \in PromptPcs /\ pc' \notin PromptPcs /\ pc' # "crashed"

\* A step in which the prompt handles a line and prompts again.
RepromptStep == pc \in PromptPcs /\ pc' = pc /\ lastInput' # NoLine

\* C11: the mode is always human, confirm or yolo; it changes only when the
\* prompt reads exactly /u, /c or /y naming another mode, and then becomes
\* the named mode and the token is returned; a token naming the active mode
\* is never returned and changes nothing, the prompt comes again; nothing
\* else (model output, execution, snapshot, rollback, /h, interruption)
\* changes the mode.
C11_ModeTransitions ==
    [][/\ mode' \in Modes
       /\ mode' # mode =>
              /\ ReturnStep
              /\ returned' \in ModeTokens
              /\ mode' = MODE_COMMANDS_MAPPING(returned')
       /\ (ReturnStep /\ returned' \in ModeTokens) =>
              /\ MODE_COMMANDS_MAPPING(returned') # mode
              /\ mode' = MODE_COMMANDS_MAPPING(returned')
       /\ (RepromptStep /\ lastInput' \in ModeTokens) =>
              /\ MODE_COMMANDS_MAPPING(lastInput') = mode
              /\ lastReport' = "already"
              /\ UNCHANGED <<mode, config, step_limit, n_calls, messages, ledger,
                             call, raised, exit_status, returned, envlog>>]_vars

\* "/c" was refused in confirm mode, then "/y" switched to yolo and confirmed.
C11_Witness ==
    /\ pc = "create_snapshot"
    /\ execMode = "confirm"
    /\ returned = LYolo
    /\ mode = "yolo"

\* C12: when the base loop signals the task as submitted, with confirm_exit
\* the user is prompted, and otherwise the episode ends as submitted; an
\* answer that is not blank after stripping is appended as a new task and
\* the episode goes on, a blank answer ends the episode as submitted.
C12_ExitConfirmation ==
    [][/\ (pc = "base_exec" /\ pc' \in {"finish_prompt", "done"}) =>
              /\ pc' = "finish_prompt" <=> confirm_exit
              /\ pc' = "done" => exit_status' = "Submitted"
       /\ pc' = "finish_prompt" => confirm_exit
       /\ (pc = "finish_prompt" /\ ReturnStep) =>
              IF Strip(returned') # <<>>
              THEN /\ pc' = "step"
                   /\ exit_status' = "none"
                   /\ messages' = Append(messages,
                          [role |-> "user",
                           content |-> <<"The user added a new task: ">> \o Strip(returned')])
              ELSE /\ pc' = "done"
                   /\ exit_status' = "Submitted"]_vars

\* The user answered the exit prompt with a new task.
C12_Witness ==
    /\ pc = "step"
    /\ confirm_exit
    /\ InLog("execute")
    /\ returned = LText
    /\ messages[Len(messages)].content = MsgNewTask(LText)
    /\ exit_status = "none"

\* C13 as stated: no interruption arriving during step() leaves it as a
\* KeyboardInterrupt; each is converted into the non-terminating exception
\* carrying the stripped comment, or the default message when the comment is
\* blank or a mode token, and the episode goes on.
C13_EveryInterruptionConverted ==
    [][/\ raised' # "keyboard_interrupt"
       /\ (pc = "interrupt_prompt" /\ ReturnStep) =>
              /\ pc' = "step"
              /\ exit_status' = "none"
              /\ messages' = Append(messages,
                     [role |-> "user",
                      content |-> <<"Interrupted by user: ">> \o
                          (IF Strip(returned') = <<>> \/ Strip(returned') \in ModeTokens
                           THEN <<"Temporary interruption caught.">>
                           ELSE Strip(returned'))])]_vars

\* A step in which _create_snapshot succeeds.
SnapshotSucceeds == pc = "create_snapshot" /\ callLog' = Append(callLog, "snapshot_ok")

\* C14: a successful _create_snapshot with counter n passes "step-n" to the
\* environment, appends exactly the record {step-n, length of the transcript,
\* n} and makes the counter n + 1; the counter changes in no other step
\* except a successful rollback to N, which makes it N + 1.
C14_SnapshotUsesCurrentCounter ==
    [][/\ SnapshotSucceeds =>
              /\ issued' = <<"step-", Digits[step_number + 1]>>
              /\ snapshots' = Append(snapshots,
                     [name |-> <<"step-", Digits[step_number + 1]>>,
                      message_count |-> Len(messages),
                      step_number |-> step_number])
              /\ step_number' = step_number + 1
              /\ messages' = messages
       /\ step_number' # step_number =>
              \/ SnapshotSucceeds /\ step_number' = step_number + 1
              \/ RollbackSucceeds /\ step_number' = RequestedStep + 1]_vars

\* The second snapshot of an episode has just been taken.
C14_Witness ==
    /\ pc = "base_exec"
    /\ callLog[Len(callLog)] = "snapshot_ok"
    /\ issued = <<"step-", "1">>
    /\ step_number = 2
    /\ Len(snapshots) = 2
    /\ snapshots[2].message_count = Len(messages)

\* C15: a step that begins in human mode prompts the user; the model is
\* called only while the mode is not human; when the query prompt returns
\* "/y" or "/c" the mode has been switched and the base query follows, and
\* any other returned line is appended as one assistant turn, wrapped as a
\* command block, without a model call.
C15_HumanModeBypassesModel ==
    [][/\ (pc = "step" /\ pc' # "step") => (pc' = "query_prompt" <=> mode = "human")
       /\ pc' \in {"lm_query", "limits_prompt"} => mode' # "human"
       /\ n_calls' # n_calls => (mode # "human" /\ pc \notin PromptPcs)
       /\ (pc = "query_prompt" /\ ReturnStep) =>
              /\ mode = "human"
              /\ n_calls' = n_calls
              /\ IF returned' \in {<<"/", "y">>, <<"/", "c">>}
                 THEN /\ pc' = "lm_query"
                      /\ mode' = (IF returned' = <<"/", "y">> THEN "yolo" ELSE "confirm")
                      /\ messages' = messages
                 ELSE /\ pc' = "execute_action"
                      /\ mode' = "human"
                      /\ messages' = Append(messages,
                             [role |-> "assistant",
                              content |-> <<FenceOpen>> \o returned' \o <<FenceClose>>])]_vars

\* The user's own command is about to be executed, with no model call.
C15_Witness ==
    /\ mode = "human"
    /\ pc = "execute_action"
    /\ returned = LText
    /\ messages[Len(messages)] = [role |-> "assistant", content |-> WrapCommand(LText)]
    /\ ~InLog("execute")

\* C16: when the confirmation prompt returns "/u" the action is given up:
\* the call has no snapshot and no execution, the ledger and the environment
\* are untouched, the exception's message is appended and the mode is human;
\* the step that follows begins at the user's prompt, with no model call.
C16_HumanTokenAborts ==
    [][/\ (pc = "confirm_prompt" /\ ReturnStep /\ returned' = <<"/", "u">>) =>
              /\ pc' = "step"
              /\ mode' = "human"
              /\ \A i \in 1..Len(callLog') : callLog'[i] \notin SnapshotEvents \cup {"execute"}
              /\ UNCHANGED <<ledger, envlog, n_calls>>
              /\ messages' = Append(messages,
                     [role |-> "user",
                      content |-> <<"Command not executed. Switching to human mode">>])
       /\ (pc = "step" /\ answer = <<"/", "u">> /\ pc' # "step") =>
              /\ mode = "human"
              /\ pc' = "query_prompt"
              /\ UNCHANGED <<n_calls, messages, ledger, envlog>>]_vars

\* The action has been given up with "/u".
C16_Witness ==
    /\ pc = "step"
    /\ answer = LHuman
    /\ mode = "human"
    /\ callLog = <<"ask", "rejected">>
    /\ action = CmdRm
    /\ messages[Len(messages)].content = MsgToHuman

\* a is an initial part of b.
IsPrefix(a, b) == Len(a) <= Len(b) /\ \A i \in 1..Len(a) : a[i] = b[i]

\* C17: every step other than a successful rollback leaves the former
\* transcript as an initial part of the new one, and a successful rollback
\* leaves an initial part of the former transcript.
C17_TranscriptAppendOnly ==
    [][IF RollbackSucceeds
       THEN IsPrefix(messages', messages)
       ELSE IsPrefix(messages, messages')]_vars

\* A rollback inside the confirmation prompt has shortened the transcript.
C17_Witness ==
    /\ pc = "confirm_prompt"
    /\ lastReport = "rolled_back"
    /\ Len(messages) < Len(stepStart.messages)
    /\ IsPrefix(messages, stepStart.messages)
    /\ messages # <<>>

\* C18 as stated: whenever the action is handed to the base executor, the
\* last entry of the transcript is the assistant turn that proposed exactly
\* this action, also after a rollback inside the confirmation prompt.
C18_DelegatedActionIsLastTurn ==
    pc = "base_exec" =>
        /\ messages # <<>>
        /\ messages[Len(messages)].role = "assistant"
        /\ ParseAction(messages[Len(messages)].content) = action

\* C19: every record of the ledger has a message_count that is at most the
\* length of the transcript, so that the slice taken by a rollback to that
\* record has exactly message_count entries.
C19_RecordsWithinTranscript ==
    \A i \in 1..Len(snapshots) :
        /\ snapshots[i].message_count <= Len(messages)
        /\ Len(Truncate(messages, snapshots[i].message_count)) = snapshots[i].message_count

\* After a rollback past a later record, the record kept last reaches to the
\* end of the transcript.
C19_Witness ==
    /\ lastReport = "rolled_back"
    /\ SnapshotName(1) \in created
    /\ Len(snapshots) = 1
    /\ snapshots[1].message_count = Len(messages)
    /\ Len(messages) < Len(stepStart.messages)

----------------------------------------------------------------------------
(* Episodes in yolo mode with snapshots and rollback: long enough for a
   snapshot to follow a rollback past a later snapshot *)

RollbackLines == {LList, LRb0, LRb1, LRbBad}

CommentLines == {LEmpty, LText}

InitLedger ==
    /\ mode = "yolo"
    /\ whitelist = <<LText>>
    /\ confirm_exit = FALSE
    /\ step_limit = 0
    /\ n_calls = 0
    /\ hasCreate = TRUE
    /\ cwdSet = TRUE
    /\ hasRollback = TRUE
    /\ messages = <<>>
    /\ snapshots = <<>>
    /\ step_number = 0
    /\ pc = "init"
    /\ action = NoCall.action
    /\ asked = NoCall.asked
    /\ execMode = NoCall.execMode
    /\ answer = NoCall.answer
    /\ callLog = NoCall.callLog
    /\ lastInput = NoLine
    /\ lastReport = "none"
    /\ raised = "none"
    /\ exit_status = "none"
    /\ stepStart = [messages |-> <<>>, snapshots |-> <<>>, step_number |-> 0]
    /\ n_turns = 0
    /\ returned = NoLine
    /\ issued = NoLine
    /\ created = {}

NextLedger ==
    \/ Run
    \/ StepBeginWithin(MaxLedgerTurns)
    \/ \E cmd \in LMCommands : LMQuery(cmd)
    \/ ExecuteAction
    \/ \E envOut \in CreateOutcomes : CreateSnapshot(envOut)
    \/ BaseExecuteOk
    \/ BaseExecuteSubmitted
    \/ Interrupt
    \/ \E line \in RollbackLines, envOut \in RollbackOutcomes : PromptRollback(line, envOut)
    \/ \E line \in CommentLines : InterruptReturn(line)
    \/ InterruptInHandler

SpecLedger == InitLedger /\ [][NextLedger]_vars

\* A step in which _create_snapshot passes a name to the environment.
SnapshotIssued == pc = "create_snapshot" /\ pc' = "base_exec" /\ hasCreate /\ cwdSet

\* C20 as stated: every name passed to the environment's create_snapshot
\* differs from every name for which an earlier call succeeded, also after
\* rollbacks.
C20_NamesNeverReissued ==
    [][SnapshotIssued => issued' \notin created]_vars

============================================================================
